---- MODULE Spec2Model ----
(***************************************************************************)
(* Model of filters.outlier (src/filters/OutlierFilter.cpp): the two       *)
(* classifiers processRadius and processStatistical with their worker      *)
(* pull-loops, and the orchestrator run.                                   *)
(*                                                                         *)
(* Numbers.  A double is an IEEE-754 binary64 value: sign, mantissa and    *)
(* exponent, or an infinity, or NaN.  +, -, *, / and std::sqrt return the  *)
(* correctly rounded result (round to nearest, ties to even), so a         *)
(* quotient such as 1 / 3 is the double 6004799503160661 / 2^54.  Points   *)
(* lie on a line at integer coordinates.                                   *)
(***************************************************************************)
EXTENDS Integers, Sequences, FiniteSets, TLC

\* ---------------------------------------------------------------- bounds
MaxPoints == 3
MaxThreads == 2
MaxCoord == 2

\* ------------------------------------------------- evaluation of operands
\* An operator takes the values of its operands: Bind evaluates v once and
\* hands the value to F.
Bind(v1, F(_)) == CHOOSE r0 \in {F(x1) : x1 \in {v1}} : TRUE
Bind2(v1, v2, F(_, _)) ==
    CHOOSE r0 \in {F(x1, x2) : x1 \in {v1}, x2 \in {v2}} : TRUE
Bind3(v1, v2, v3, F(_, _, _)) ==
    CHOOSE r0 \in {F(x1, x2, x3) : x1 \in {v1}, x2 \in {v2}, x3 \in {v3}} :
        TRUE

Abs(x) == IF x < 0 THEN -x ELSE x
Min(a, b) == IF a < b THEN a ELSE b
Max(a, b) == IF a < b THEN b ELSE a

\* --------------------------------------------------------- big naturals
\* A natural number is the sequence of its digits in base 2^15, lowest
\* digit first, without leading zero digits; 0 is the empty sequence.
LimbBits == 15
Base == 32768

RECURSIVE Pow2(_)
Pow2(k) == IF k = 0 THEN 1 ELSE 2 * Pow2(k - 1)

\* the number of bits of a digit
RECURSIVE BitLen(_)
BitLen(k) == IF k = 0 THEN 0 ELSE 1 + BitLen(k \div 2)

\* the number of trailing zero bits of a digit other than 0
RECURSIVE TrailingZeros(_)
TrailingZeros(k) == IF k % 2 = 1 THEN 0 ELSE 1 + TrailingZeros(k \div 2)

RECURSIVE FromNat(_)
FromNat(k) ==
    IF k = 0 THEN << >> ELSE <<k % Base>> \o FromNat(k \div Base)

RECURSIVE BTrimValue(_)
BTrimValue(a) ==
    IF Len(a) = 0 \/ a[Len(a)] # 0 THEN a
    ELSE Bind(SubSeq(a, 1, Len(a) - 1), BTrimValue)

BTrim(a) == Bind(a, BTrimValue)

BLimb(a, i) == IF i <= Len(a) THEN a[i] ELSE 0

RECURSIVE BAddFrom(_, _, _, _)
BAddFrom(a, b, i, carry) ==
    IF i > Len(a) /\ i > Len(b)
    THEN IF carry = 0 THEN << >> ELSE <<carry>>
    ELSE Bind2(i + 1, BLimb(a, i) + BLimb(b, i) + carry,
               LAMBDA j, t : <<t % Base>> \o BAddFrom(a, b, j, t \div Base))

BAdd(a, b) == Bind2(a, b, LAMBDA x, y : BAddFrom(x, y, 1, 0))

\* a - b for a >= b
RECURSIVE BSubFrom(_, _, _, _)
BSubFrom(a, b, i, borrow) ==
    IF i > Len(a) THEN << >>
    ELSE Bind2(i + 1, a[i] - BLimb(b, i) - borrow,
               LAMBDA j, t : <<t % Base>>
                   \o BSubFrom(a, b, j, IF t < 0 THEN 1 ELSE 0))

BSub(a, b) == Bind2(a, b, LAMBDA x, y : BTrim(BSubFrom(x, y, 1, 0)))

RECURSIVE BCmpFrom(_, _, _)
BCmpFrom(a, b, i) ==
    IF i = 0 THEN 0
    ELSE IF a[i] # b[i] THEN (IF a[i] < b[i] THEN -1 ELSE 1)
    ELSE Bind(i - 1, LAMBDA j : BCmpFrom(a, b, j))

\* -1, 0 or 1 as a is below, equal to or above b
BCmp(a, b) ==
    Bind2(a, b, LAMBDA x, y :
        IF Len(x) # Len(y) THEN (IF Len(x) < Len(y) THEN -1 ELSE 1)
        ELSE BCmpFrom(x, y, Len(x)))

RECURSIVE BMulSmallFrom(_, _, _, _)
BMulSmallFrom(a, k, i, carry) ==
    IF i > Len(a)
    THEN IF carry = 0 THEN << >> ELSE <<carry>>
    ELSE Bind2(i + 1, a[i] * k + carry,
               LAMBDA j, t : <<t % Base>>
                   \o BMulSmallFrom(a, k, j, t \div Base))

\* a * k for a digit k
BMulSmall(a, k) ==
    Bind2(a, k, LAMBDA x, d :
        IF d = 0 THEN << >> ELSE BMulSmallFrom(x, d, 1, 0))

\* a * Base^k
BShiftLimbs(a, k) ==
    Bind(a, LAMBDA x : IF x = << >> THEN x ELSE [i \in 1..k |-> 0] \o x)

RECURSIVE BMulFrom(_, _, _)
BMulFrom(a, b, j) ==
    IF j > Len(b) THEN << >>
    ELSE BAdd(BMulSmall(a, b[j]),
              BShiftLimbs(Bind(j + 1, LAMBDA k : BMulFrom(a, b, k)), 1))

BMul(a, b) == Bind2(a, b, LAMBDA x, y : BMulFrom(x, y, 1))

\* a * 2^bits
BShl(a, bits) ==
    Bind2(a, bits, LAMBDA x, k :
        IF k = 0 THEN x
        ELSE BShiftLimbs(BMulSmall(x, Pow2(k % LimbBits)), k \div LimbBits))

\* digits i..1 of a divided by the digit d, r being the remainder of the
\* digits above: the remainder, then the digits of the quotient
RECURSIVE BDivSmallFrom(_, _, _, _)
BDivSmallFrom(a, d, i, r) ==
    IF i = 0 THEN <<r>>
    ELSE Bind2(i - 1, r * Base + a[i],
               LAMBDA j, t : Append(BDivSmallFrom(a, d, j, t % d), t \div d))

\* quotient and remainder of a by a digit d
BDivSmall(a, d) ==
    Bind(BDivSmallFrom(a, d, Len(a), 0),
         LAMBDA s : [q |-> BTrim(Tail(s)), r |-> FromNat(s[1])])

\* floor(a / 2^bits)
BShr(a, bits) ==
    Bind2(a, bits, LAMBDA x, k :
        IF k = 0 THEN x
        ELSE IF k \div LimbBits >= Len(x) THEN << >>
        ELSE BDivSmall(SubSeq(x, k \div LimbBits + 1, Len(x)),
                       Pow2(k % LimbBits)).q)

BBitLen(a) ==
    Bind(a, LAMBDA x :
        IF x = << >> THEN 0
        ELSE (Len(x) - 1) * LimbBits + BitLen(x[Len(x)]))

\* bit i of a, bit 0 being the lowest
BBit(a, i) ==
    Bind2(a, i, LAMBDA x, k :
        (BLimb(x, k \div LimbBits + 1) \div Pow2(k % LimbBits)) % 2)

\* the bits of a below bit number `bits` are all 0
BLowZero(a, bits) ==
    Bind2(a, bits, LAMBDA x, k :
        /\ \A j \in 1..(k \div LimbBits) : BLimb(x, j) = 0
        /\ BLimb(x, k \div LimbBits + 1) % Pow2(k % LimbBits) = 0)

\* the number of trailing zero bits of a # 0
BTrailingZeros(a) ==
    Bind(a, LAMBDA x :
        Bind(CHOOSE j \in 1..Len(x) :
                 x[j] # 0 /\ \A i \in 1..(j - 1) : x[i] = 0,
             LAMBDA j : (j - 1) * LimbBits + TrailingZeros(x[j])))

\* one step of long division: q and r are quotient and remainder of the
\* bits of a above bit i, the result those of the bits from bit i up
BDivBit(a, d, i, qr) ==
    Bind2(BMulSmall(qr.q, 2),
          BAdd(BMulSmall(qr.r, 2), FromNat(BBit(a, i))),
          LAMBDA q2, r2 :
              IF BCmp(r2, d) >= 0
              THEN [q |-> BAdd(q2, <<1>>), r |-> BSub(r2, d)]
              ELSE [q |-> q2, r |-> r2])

\* long division over bits hi-1..lo of a, highest bit first; the range is
\* halved so that the evaluation stays shallow
RECURSIVE BDivBits(_, _, _, _, _)
BDivBits(a, d, hi, lo, qr) ==
    IF hi <= lo THEN qr
    ELSE IF hi = lo + 1 THEN BDivBit(a, d, lo, qr)
    ELSE Bind((hi + lo) \div 2, LAMBDA mid :
             Bind(BDivBits(a, d, hi, mid, qr), LAMBDA upper :
                 BDivBits(a, d, mid, lo, upper)))

\* quotient and remainder of a by d # 0
BDivMod(a, d) ==
    Bind2(a, d, LAMBDA x, y :
        IF Len(y) = 1 THEN BDivSmall(x, y[1])
        ELSE BDivBits(x, y, BBitLen(x), 0, [q |-> << >>, r |-> << >>]))

\* one step of the square root, on the two bits 2i+1 and 2i of a: s and r
\* are the root and the remainder of the bits of a above them, the result
\* those of the bits from bit 2i up
BSqrtBit(a, i, sr) ==
    Bind2(BAdd(BMulSmall(sr.r, 4),
               FromNat(2 * BBit(a, 2 * i + 1) + BBit(a, 2 * i))),
          BAdd(BMulSmall(sr.s, 4), <<1>>),
          LAMBDA r2, c :
              IF BCmp(r2, c) >= 0
              THEN [s |-> BAdd(BMulSmall(sr.s, 2), <<1>>), r |-> BSub(r2, c)]
              ELSE [s |-> BMulSmall(sr.s, 2), r |-> r2])

\* the root over the bit pairs hi-1..lo, highest first
RECURSIVE BSqrtBits(_, _, _, _)
BSqrtBits(a, hi, lo, sr) ==
    IF hi <= lo THEN sr
    ELSE IF hi = lo + 1 THEN BSqrtBit(a, lo, sr)
    ELSE Bind((hi + lo) \div 2, LAMBDA mid :
             Bind(BSqrtBits(a, hi, mid, sr), LAMBDA upper :
                 BSqrtBits(a, mid, lo, upper)))

\* s = floor(sqrt(a)) and the remainder r = a - s * s
BSqrtRem(a) ==
    Bind(a, LAMBDA x :
        BSqrtBits(x, (BBitLen(x) + 1) \div 2, 0, [s |-> << >>, r |-> << >>]))

\* ------------------------------------------------------ IEEE-754 doubles
\* A double is [c, s, m, e]: c = "fin" is the value s * m * 2^e with sign
\* s in {1, -1} and m a big natural that is odd or 0 (e = 0 for the two
\* zeros); c = "inf" is s * infinity; c = "nan" is NaN.  The arithmetic
\* operators return the correctly rounded result (round to nearest, ties
\* to even) as the machine does.
Precision == 53
EMin == -1074
EMax == 1024

Fin(s, m, e) == [c |-> "fin", s |-> s, m |-> m, e |-> e]
Zero(s) == Fin(s, << >>, 0)
Inf(s) == [c |-> "inf", s |-> s, m |-> << >>, e |-> 0]
NaN == [c |-> "nan", s |-> 1, m |-> << >>, e |-> 0]
IsNaN(x) == x.c = "nan"
IsInf(x) == x.c = "inf"
IsFinite(x) == x.c = "fin"
IsZero(x) == x.c = "fin" /\ x.m = << >>

\* the double s * m * 2^e for a value that needs no rounding
Pack(s, m, e) ==
    Bind2(m, e, LAMBDA x, k :
        IF x = << >> THEN Zero(s)
        ELSE IF BBitLen(x) + k > EMax THEN Inf(s)
        ELSE IF x[1] % 2 = 1 THEN Fin(s, x, k)
        ELSE Bind(BTrailingZeros(x),
                  LAMBDA tz : Fin(s, BShr(x, tz), k + tz)))

\* the double nearest to s * (m + f) * 2^e, where 0 <= f < 1 and f # 0
\* exactly when sticky; with sticky m has at least Precision + 2 bits
Round(s, m, e, sticky) ==
    Bind2(m, e, LAMBDA x, k :
        Bind(Max(BBitLen(x) - Precision, EMin - k), LAMBDA drop :
            IF drop <= 0 THEN Pack(s, x, k)
            ELSE Bind(BShr(x, drop), LAMBDA kept :
                    IF /\ BBit(x, drop - 1) = 1
                       /\ \/ sticky
                          \/ ~BLowZero(x, drop - 1)
                          \/ BBit(kept, 0) = 1
                    THEN Pack(s, BAdd(kept, <<1>>), k + drop)
                    ELSE Pack(s, kept, k + drop))))

\* Short cuts for small values.  A machine integer i times 2^e is a double
\* as it stands when e is far from both ends of the exponent range.
PlainExponent(e) == e >= EMin /\ e + 2 * LimbBits + 1 <= EMax

\* the double i * 2^e for a machine integer i and a plain exponent e
FromInt(i, e) ==
    IF i = 0 THEN Zero(1)
    ELSE Bind(TrailingZeros(Abs(i)), LAMBDA tz :
            Fin(IF i < 0 THEN -1 ELSE 1, FromNat(Abs(i) \div Pow2(tz)),
                e + tz))

\* a and b, finite and not 0, have one-digit mantissas and exponents so
\* close that both are machine integers times 2^Min(a.e, b.e)
Small(a, b) ==
    /\ Len(a.m) = 1
    /\ Len(b.m) = 1
    /\ Abs(a.e - b.e) <= LimbBits
    /\ PlainExponent(Min(a.e, b.e))

\* the machine integer a / 2^e for the pairs of Small
Scaled(a, e) == a.s * a.m[1] * Pow2(a.e - e)

\* the double of the integer i
Dbl(i) == Bind(i, LAMBDA k : FromInt(k, 0))

DNeg(x) ==
    Bind(x, LAMBDA a : IF IsNaN(a) THEN a ELSE [a EXCEPT !.s = -a.s])

DAbs(x) ==
    Bind(x, LAMBDA a : IF IsNaN(a) THEN a ELSE [a EXCEPT !.s = 1])

\* a + b for finite a and b other than 0 whose exponents are close: the
\* exact sum of the two mantissas at the lower exponent, rounded
DAddAligned(a, b) ==
    Bind3(Min(a.e, b.e),
          BShl(a.m, a.e - Min(a.e, b.e)),
          BShl(b.m, b.e - Min(a.e, b.e)),
          LAMBDA e, ma, mb :
              IF a.s = b.s THEN Round(a.s, BAdd(ma, mb), e, FALSE)
              ELSE Bind(BCmp(ma, mb), LAMBDA cmp :
                      IF cmp = 0 THEN Zero(1)
                      ELSE IF cmp > 0
                      THEN Round(a.s, BSub(ma, mb), e, FALSE)
                      ELSE Round(b.s, BSub(mb, ma), e, FALSE)))

\* a + b for finite a and b other than 0; an operand below a quarter of
\* the other's last place does not change the rounded sum
DAddFinite(a, b) ==
    IF Small(a, b)
    THEN Bind(Min(a.e, b.e), LAMBDA e :
            FromInt(Scaled(a, e) + Scaled(b, e), e))
    ELSE Bind2(BBitLen(a.m) + a.e, BBitLen(b.m) + b.e, LAMBDA ta, tb :
            IF ta - tb > Precision + 2 THEN a
            ELSE IF tb - ta > Precision + 2 THEN b
            ELSE DAddAligned(a, b))

DAdd(x, y) ==
    Bind2(x, y, LAMBDA a, b :
        IF IsNaN(a) \/ IsNaN(b) THEN NaN
        ELSE IF IsInf(a) THEN (IF IsInf(b) /\ a.s # b.s THEN NaN ELSE a)
        ELSE IF IsInf(b) THEN b
        ELSE IF IsZero(a) /\ IsZero(b)
             THEN Zero(IF a.s = -1 /\ b.s = -1 THEN -1 ELSE 1)
        ELSE IF IsZero(a) THEN b
        ELSE IF IsZero(b) THEN a
        ELSE DAddFinite(a, b))

DSub(x, y) == DAdd(x, DNeg(y))

DMul(x, y) ==
    Bind2(x, y, LAMBDA a, b :
        IF IsNaN(a) \/ IsNaN(b) THEN NaN
        ELSE IF (IsInf(a) /\ IsZero(b)) \/ (IsZero(a) /\ IsInf(b)) THEN NaN
        ELSE IF IsInf(a) \/ IsInf(b) THEN Inf(a.s * b.s)
        ELSE IF Len(a.m) = 1 /\ Len(b.m) = 1 /\ PlainExponent(a.e + b.e)
             THEN Fin(a.s * b.s, FromNat(a.m[1] * b.m[1]), a.e + b.e)
        ELSE Round(a.s * b.s, BMul(a.m, b.m), a.e + b.e, FALSE))

\* a / b for finite a and b other than 0: the quotient of the mantissas
\* to Precision + 2 bits or more, and whether it is exact
DDivFinite(a, b) ==
    IF /\ Len(a.m) = 1
       /\ Len(b.m) = 1
       /\ a.m[1] % b.m[1] = 0
       /\ PlainExponent(a.e - b.e)
    THEN Fin(a.s * b.s, <<a.m[1] \div b.m[1]>>, a.e - b.e)
    ELSE
    Bind(Max(0, Precision + 2 + BBitLen(b.m) - BBitLen(a.m)), LAMBDA k :
        Bind(BDivMod(BShl(a.m, k), b.m), LAMBDA qr :
            Round(a.s * b.s, qr.q, a.e - b.e - k, qr.r # << >>)))

DDiv(x, y) ==
    Bind2(x, y, LAMBDA a, b :
        IF IsNaN(a) \/ IsNaN(b) THEN NaN
        ELSE IF IsInf(a) /\ IsInf(b) THEN NaN
        ELSE IF IsZero(a) /\ IsZero(b) THEN NaN
        ELSE IF IsInf(a) \/ IsZero(b) THEN Inf(a.s * b.s)
        ELSE IF IsInf(b) \/ IsZero(a) THEN Zero(a.s * b.s)
        ELSE DDivFinite(a, b))

\* the root of a finite a > 0 that is not exact: the root of m * 2^k
\* with e - k even, to Precision + 2 bits or more, rounded
DSqrtRounded(a) ==
    Bind(Max(0, 2 * (Precision + 2) - BBitLen(a.m)), LAMBDA k0 :
        Bind(IF (a.e - k0) % 2 = 0 THEN k0 ELSE k0 + 1, LAMBDA k :
            Bind(BSqrtRem(BShl(a.m, k)), LAMBDA sr :
                Round(1, sr.s, (a.e - k) \div 2, sr.r # << >>))))

\* floor(sqrt(k)) of a digit k: bit is the bit to decide, r the bits above
RECURSIVE SqrtBits(_, _, _)
SqrtBits(k, bit, r) ==
    IF bit = 0 THEN r
    ELSE IF (r + bit) * (r + bit) <= k THEN SqrtBits(k, bit \div 2, r + bit)
    ELSE SqrtBits(k, bit \div 2, r)

\* std::sqrt of a finite a > 0: with e even and m a square the root needs
\* no rounding
DSqrtFinite(a) ==
    IF a.e % 2 # 0 THEN DSqrtRounded(a)
    ELSE IF Len(a.m) = 1
    THEN Bind(SqrtBits(a.m[1], Pow2((LimbBits - 1) \div 2), 0), LAMBDA root :
            IF root * root = a.m[1] THEN Fin(1, <<root>>, a.e \div 2)
            ELSE DSqrtRounded(a))
    ELSE Bind(BSqrtRem(a.m), LAMBDA sr :
            IF sr.r = << >> THEN Pack(1, sr.s, a.e \div 2)
            ELSE DSqrtRounded(a))

\* std::sqrt
DSqrt(x) ==
    Bind(x, LAMBDA a :
        IF IsNaN(a) THEN NaN
        ELSE IF IsZero(a) THEN a
        ELSE IF a.s = -1 THEN NaN
        ELSE IF IsInf(a) THEN a
        ELSE DSqrtFinite(a))

\* -1, 0 or 1 as |a| is below, equal to or above |b|, for a and b that are
\* finite and not 0
DCmpMagnitude(a, b) ==
    IF Small(a, b)
    THEN Bind2(a.m[1] * Pow2(a.e - Min(a.e, b.e)),
               b.m[1] * Pow2(b.e - Min(a.e, b.e)),
               LAMBDA ma, mb :
                   IF ma < mb THEN -1 ELSE IF ma = mb THEN 0 ELSE 1)
    ELSE Bind2(BBitLen(a.m) + a.e, BBitLen(b.m) + b.e, LAMBDA ta, tb :
            IF ta # tb THEN (IF ta < tb THEN -1 ELSE 1)
            ELSE BCmp(BShl(a.m, a.e - Min(a.e, b.e)),
                      BShl(b.m, b.e - Min(a.e, b.e))))

\* -1, 0 or 1 as a is below, equal to or above b, neither being NaN
DCmp(a, b) ==
    Bind2(IF IsZero(a) THEN 0 ELSE a.s, IF IsZero(b) THEN 0 ELSE b.s,
          LAMBDA sa, sb :
              IF sa # sb THEN (IF sa < sb THEN -1 ELSE 1)
              ELSE IF sa = 0 THEN 0
              ELSE IF IsInf(a) THEN (IF IsInf(b) THEN 0 ELSE sa)
              ELSE IF IsInf(b) THEN -sa
              ELSE sa * DCmpMagnitude(a, b))

\* operator < of double: false as soon as one side is NaN
DLess(x, y) ==
    Bind2(x, y, LAMBDA a, b :
        IF IsNaN(a) \/ IsNaN(b) THEN FALSE ELSE DCmp(a, b) < 0)

\* operator == of double
DEqual(x, y) ==
    Bind2(x, y, LAMBDA a, b :
        IF IsNaN(a) \/ IsNaN(b) THEN FALSE ELSE DCmp(a, b) = 0)

\* the double a / b of the integers a and b
Frac(a, b) == DDiv(Dbl(a), Dbl(b))

\* ------------------------------------------------------- configuration
\* option defaults of addArgs
DefaultMinK == 2
DefaultRadius == 1
DefaultMeanK == 8
DefaultMultiplier == 2
LowPoint == 7

\* method names as ASCII strings
StrStatistical == <<115, 116, 97, 116, 105, 115, 116, 105, 99, 97, 108>>
StrRadius == <<114, 97, 100, 105, 117, 115>>
StrRadiusCaps == <<82, 65, 68, 73, 85, 83>>
StrMedian == <<109, 101, 100, 105, 97, 110>>

ToLower(c) == IF c >= 65 /\ c <= 90 THEN c + 32 ELSE c

\* Utils::iequals: case-insensitive string equality
iequals(a, b) ==
    /\ Len(a) = Len(b)
    /\ \A i \in 1..Len(a) : ToLower(a[i]) = ToLower(b[i])

MinKValues == -1..2
RadiusValues == {Dbl(1)}
MeanKValues == {1, 2}
MultiplierValues == {Dbl(0), Dbl(1)}

\* the Classification values a view of k points arrives with: never
\* classified (1), or ground (2) with some points already marked as noise
Classifications(k) ==
    {[p \in 0..(k - 1) |-> 1],
     [p \in 0..(k - 1) |-> IF p % 2 = 0 THEN LowPoint ELSE 2]}

\* the options a run is configured with; an option the selected method
\* never reads stays at its default
Configs ==
    {[method |-> m, minK |-> k, radius |-> r,
      meanK |-> DefaultMeanK, multiplier |-> Dbl(DefaultMultiplier)] :
        m \in {StrRadiusCaps}, k \in MinKValues, r \in RadiusValues}
    \cup
    {[method |-> StrStatistical, minK |-> DefaultMinK,
      radius |-> Dbl(DefaultRadius), meanK |-> k, multiplier |-> mu] :
        k \in MeanKValues, mu \in MultiplierValues}
    \cup
    {[method |-> StrMedian, minK |-> DefaultMinK,
      radius |-> Dbl(DefaultRadius), meanK |-> DefaultMeanK,
      multiplier |-> Dbl(DefaultMultiplier)]}

\* the coordinates of k points on a line, in scan order from the origin
Lines(k) ==
    {x \in [0..(k - 1) -> 0..MaxCoord] :
        /\ k > 0 => x[0] = 0
        /\ \A p \in 0..(k - 2) : x[p] <= x[p + 1]}

\* the views a run is given: k points on a line, each with a class
Views ==
    UNION {[x : Lines(k), classification : Classifications(k)] :
           k \in 0..MaxPoints}

NoIdx == -1

VARIABLES
    m_method, m_minK, m_radius, m_meanK, m_multiplier, m_class, m_threads,
    inView,          \* the view: coordinates and Classification dimension
    viewSet,         \* what run returned
    run_pc,          \* position of the calling thread
    point_indices,   \* the deque of pending indices
    inliers, outliers,
    distances,       \* local means (processStatistical)
    unfilled,        \* what the index of this run leaves in a slot of
                     \* sqr_dists the view has no point for
    queue_lock, result_lock,   \* owner of each mutex, 0 when free
    wpc, idx, ids, tmp_distance,   \* per worker: position and locals
    n, M1, M2, threshold,      \* global fold
    indices,         \* the Indices run works on
    pop_count,       \* history: pops of each index from the queue
    merge_count,     \* history: merges into the shared result per index
    classification_before,  \* history: the Classification run was given
    threads_before          \* history: the threads option as configured

cfgvars == <<m_method, m_minK, m_radius, m_meanK, m_multiplier, m_class>>
lockvars == <<queue_lock, result_lock>>
workervars == <<wpc, idx, ids, tmp_distance>>
foldvars == <<n, M1, M2, threshold>>
histvars == <<pop_count, merge_count, classification_before,
              threads_before>>
vars == <<cfgvars, m_threads, inView, viewSet, run_pc, point_indices,
          inliers, outliers, distances, unfilled, lockvars, workervars,
          foldvars, indices, histvars>>

np == Cardinality(DOMAIN inView.x)
PointIds == 0..(np - 1)
Workers == DOMAIN wpc

\* the locals mean, variance, stdev and threshold of lines 220-224
NoThreshold ==
    [mean |-> Dbl(0), variance |-> Dbl(0), stdev |-> Dbl(0),
     threshold |-> Dbl(0)]

Init ==
    /\ \E c \in Configs :
        /\ m_method = c.method
        /\ m_minK = c.minK
        /\ m_radius = c.radius
        /\ m_meanK = c.meanK
        /\ m_multiplier = c.multiplier
    /\ m_class = LowPoint
    /\ m_threads \in 0..MaxThreads
    /\ inView \in Views
    /\ viewSet = {}
    /\ run_pc = "configured"
    /\ point_indices = << >>
    /\ inliers = << >>
    /\ outliers = << >>
    /\ distances = << >>
    /\ unfilled = 0
    /\ queue_lock = 0
    /\ result_lock = 0
    /\ wpc = << >>
    /\ idx = << >>
    /\ ids = << >>
    /\ tmp_distance = << >>
    /\ n = 0
    /\ M1 = Dbl(0)
    /\ M2 = Dbl(0)
    /\ threshold = NoThreshold
    /\ indices = [inliers |-> << >>, outliers |-> << >>]
    /\ pop_count = << >>
    /\ merge_count = << >>
    /\ classification_before = inView.classification
    /\ threads_before = m_threads

\* ------------------------------------------------ spatial index (KD3Index)
SqrDist(p, q) == (inView.x[p] - inView.x[q]) * (inView.x[p] - inView.x[q])

\* index.radius(p, r): the ids within r of p, p itself included
radius(p, r) ==
    Bind(DMul(r, r), LAMBDA r2 :
        {q \in PointIds : ~DLess(r2, Dbl(SqrDist(p, q)))})

\* q comes before q2 in the k-nearest-neighbour result of p: ascending
\* distance, the query point first among the points at distance 0
Nearer(p, q, q2) ==
    \/ SqrDist(p, q) < SqrDist(p, q2)
    \/ /\ SqrDist(p, q) = SqrDist(p, q2)
       /\ q # q2
       /\ (q = p \/ (q2 # p /\ q < q2))

NthNearest(p, j) ==
    CHOOSE q \in PointIds :
        Cardinality({q2 \in PointIds : Nearer(p, q2, q)}) = j - 1

\* index.knnSearch(p, count, &indices, &sqr_dists): the squared distances
\* of the count nearest points in ascending order, p itself first. A view
\* of fewer than count points has no point for the last slots of
\* sqr_dists; what the loop of lines 192-195 reads there is the value
\* unfilled, the same for every query of a run.
knnSearch(p, count) ==
    [j \in 1..count |->
        IF j <= np THEN SqrDist(p, NthNearest(p, j)) ELSE unfilled]

\* the largest squared distance between two points of the view
Farthest == SqrDist(0, np - 1)

\* the square of a distance beyond every point of the view
Beyond == (inView.x[np - 1] - inView.x[0] + 1)
              * (inView.x[np - 1] - inView.x[0] + 1)

\* the values of the slots the index has no point for, when a query asks
\* for count points: the 0.0 the vector sqr_dists is created with (line
\* 189), which an index that writes only the slots it has points for
\* leaves in place, or, for an index that writes every slot and keeps
\* the result ascending, the farthest distance found or one beyond it
Unfilled(count) == IF count > np THEN {0, Farthest, Beyond} ELSE {0}

\* ------------------------------------------------------ helper operators
Iota(k) == [i \in 1..k |-> i - 1]

\* variant: the worker stops while one index is still pending
empty_one_left(q) == Len(q) <= 1

empty(q) == Len(q) = 0

\* variant: the index is read from the other end of the deque
front_back(q) == q[Len(q)]

front(q) == q[1]

\* variant: the index is removed from the other end of the deque
pop_front_back(q) == SubSeq(q, 1, Len(q) - 1)

pop_front(q) == Tail(q)

push_back(list, i) == Append(list, i)

\* variant: the divisor counts the query point as well
RECURSIVE LocalMeanLoop_self(_, _, _, _)
LocalMeanLoop_self(sqr_dists, j, count, tmp) ==
    IF j < count
    THEN LET delta == DSub(DSqrt(Dbl(sqr_dists[j + 1])), tmp)
         IN  LocalMeanLoop_self(sqr_dists, j + 1, count,
                                DAdd(tmp, DDiv(delta, Dbl(j + 1))))
    ELSE tmp

\* the loop of lines 192-195, sqr_dists[j] being the (j+1)-th element
RECURSIVE LocalMeanLoop(_, _, _, _)
LocalMeanLoop(sqr_dists, j, count, tmp) ==
    IF j < count
    THEN LET delta == DSub(DSqrt(Dbl(sqr_dists[j + 1])), tmp)
         IN  LocalMeanLoop(sqr_dists, j + 1, count,
                           DAdd(tmp, DDiv(delta, Dbl(j))))
    ELSE tmp

IsStatistical == iequals(m_method, StrStatistical)

\* variant: every other method name falls through to the radius method
IsRadius_else == ~IsStatistical

IsRadius == ~IsStatistical /\ iequals(m_method, StrRadius)

\* ids.size() > size_t(m_minK): a negative m_minK converts to a value of
\* at least 2^63, above the size of any id list
\* variant: the count is compared with >=
IsInlierRadius_ge(size, minK) == IF minK < 0 THEN FALSE ELSE size >= minK

IsInlierRadius(size, minK) == IF minK < 0 THEN FALSE ELSE size > minK

\* variant: the local mean is compared with <=
IsInlierStatistical_le(d, th) ==
    DLess(d, th.threshold) \/ DEqual(d, th.threshold)

\* line 228: distances[i] < threshold
IsInlierStatistical(d, th) == DLess(d, th.threshold)

\* variant: M2 grows by delta * delta
FoldUpdate_naive(acc, d) ==
    LET nn == acc.n + 1
        delta == DSub(d, acc.M1)
        delta_n == DDiv(delta, Dbl(nn))
    IN  [n |-> nn,
         M1 |-> DAdd(acc.M1, delta_n),
         M2 |-> DAdd(acc.M2, DMul(delta, delta))]

\* variant: M2 grows by delta * (d - M1) * (n - 1) with the updated M1
FoldUpdate_times_n1(acc, d) ==
    LET n1 == acc.n
        nn == acc.n + 1
        delta == DSub(d, acc.M1)
        m1 == DAdd(acc.M1, DDiv(delta, Dbl(nn)))
    IN  [n |-> nn,
         M1 |-> m1,
         M2 |-> DAdd(acc.M2, DMul(DMul(delta, DSub(d, m1)), Dbl(n1)))]

\* one iteration of the loop of lines 211-219 on the value d
FoldUpdate(acc, d) ==
    LET n1 == acc.n
        nn == acc.n + 1
        delta == DSub(d, acc.M1)
        delta_n == DDiv(delta, Dbl(nn))
    IN  [n |-> nn,
         M1 |-> DAdd(acc.M1, delta_n),
         M2 |-> DAdd(acc.M2, DMul(DMul(delta, delta_n), Dbl(n1)))]

\* lines 220-224: mean = M1, variance = M2 / (n - 1.0),
\* stdev = std::sqrt(variance), threshold = mean + m_multiplier * stdev
GlobalThreshold(acc, multiplier) ==
    Bind(DDiv(acc.M2, DSub(Dbl(acc.n), Dbl(1))), LAMBDA variance :
        Bind(DSqrt(variance), LAMBDA stdev :
            [mean |-> acc.M1,
             variance |-> variance,
             stdev |-> stdev,
             threshold |-> DAdd(acc.M1, DMul(multiplier, stdev))]))

\* variant: the loop stops one point early
RECURSIVE ClassifyLoop_short(_, _, _)
ClassifyLoop_short(i, th, acc) ==
    IF i < np - 1
    THEN ClassifyLoop_short(i + 1, th,
            IF IsInlierStatistical(distances[i], th)
            THEN [acc EXCEPT !.inliers = push_back(@, i)]
            ELSE [acc EXCEPT !.outliers = push_back(@, i)])
    ELSE acc

\* the classification loop of lines 226-232 over the ids i..np-1
RECURSIVE ClassifyLoop(_, _, _)
ClassifyLoop(i, th, acc) ==
    IF i < np
    THEN ClassifyLoop(i + 1, th,
            IF IsInlierStatistical(distances[i], th)
            THEN [acc EXCEPT !.inliers = push_back(@, i)]
            ELSE [acc EXCEPT !.outliers = push_back(@, i)])
    ELSE acc

\* variant: the class code is added to the value the point has
RECURSIVE SetFieldLoop_add(_, _, _, _)
SetFieldLoop_add(classification, list, k, class) ==
    IF k <= Len(list)
    THEN SetFieldLoop_add(
            [classification EXCEPT ![list[k]] = (@ + class) % 256],
            list, k + 1, class)
    ELSE classification

\* variant: the last outlier is not labelled
RECURSIVE SetFieldLoop_short(_, _, _, _)
SetFieldLoop_short(classification, list, k, class) ==
    IF k < Len(list)
    THEN SetFieldLoop_short([classification EXCEPT ![list[k]] = class],
                            list, k + 1, class)
    ELSE classification

\* the loop of lines 276-277 over the outliers from position k on
RECURSIVE SetFieldLoop(_, _, _, _)
SetFieldLoop(classification, list, k, class) ==
    IF k <= Len(list)
    THEN SetFieldLoop([classification EXCEPT ![list[k]] = class],
                      list, k + 1, class)
    ELSE classification

\* ---------------------------------------------------------------- ready
\* the values std::thread::hardware_concurrency() returns, 0 when unknown
HwConcurrency == 0..MaxThreads

\* variant: the threads option is used as configured
ReadyThreads_unclamped(threads, hw_concurrency) == threads

\* m_threads after ready: below 1 it is set to 1; above hw_concurrency
\* only a warning is logged
ReadyThreads(threads, hw_concurrency) == IF threads < 1 THEN 1 ELSE threads

Ready ==
    /\ run_pc = "configured"
    /\ \E hw_concurrency \in HwConcurrency :
        m_threads' = ReadyThreads(m_threads, hw_concurrency)
    /\ run_pc' = "ready"
    /\ UNCHANGED <<cfgvars, unfilled, inView, viewSet, point_indices, inliers,
                   outliers, distances, lockvars, workervars, foldvars,
                   indices, histvars>>

\* ------------------------------------------------------------------ run
\* the state a classifier sets up before thread_pool->go(): the queue
\* holds 0..np-1 and one task per thread is added to the pool
Setup ==
    /\ point_indices' = Iota(np)
    /\ inliers' = << >>
    /\ outliers' = << >>
    /\ distances' = [p \in PointIds |-> Dbl(0)]
    /\ queue_lock' = 0
    /\ result_lock' = 0
    /\ wpc' = [w \in 1..m_threads |-> "queued"]
    /\ idx' = [w \in 1..m_threads |-> NoIdx]
    /\ ids' = [w \in 1..m_threads |-> {}]
    /\ tmp_distance' = [w \in 1..m_threads |-> Dbl(0)]
    /\ pop_count' = [p \in PointIds |-> 0]
    /\ merge_count' = [p \in PointIds |-> 0]
    /\ run_pc' = "go"
    /\ UNCHANGED <<cfgvars, m_threads, inView, viewSet, foldvars, indices,
                   classification_before,
                   threads_before>>

RunEmpty ==
    /\ run_pc = "ready"
    /\ np = 0
    /\ viewSet' = {}
    /\ run_pc' = "returned"
    /\ UNCHANGED <<cfgvars, unfilled, m_threads, inView, point_indices,
                   inliers, outliers, distances, lockvars, workervars,
                   foldvars, indices, histvars>>

\* processStatistical builds its index (lines 152-153) and sets up
RunStatistical ==
    /\ run_pc = "ready"
    /\ np # 0
    /\ IsStatistical
    /\ unfilled' \in Unfilled(m_meanK + 1)
    /\ Setup

RunRadius ==
    /\ run_pc = "ready"
    /\ np # 0
    /\ IsRadius
    /\ UNCHANGED unfilled
    /\ Setup

RunUnrecognized ==
    /\ run_pc = "ready"
    /\ np # 0
    /\ ~IsStatistical
    /\ ~IsRadius
    /\ viewSet' = {"inView"}
    /\ run_pc' = "returned"
    /\ UNCHANGED <<cfgvars, unfilled, m_threads, inView, point_indices,
                   inliers, outliers, distances, lockvars, workervars,
                   foldvars, indices, histvars>>

\* thread_pool->go()
Go ==
    /\ run_pc = "go"
    /\ wpc' = [w \in Workers |-> "pop"]
    /\ run_pc' = "join"
    /\ UNCHANGED <<cfgvars, unfilled, m_threads, inView, viewSet,
                   point_indices, inliers, outliers, distances, lockvars, idx,
                   ids, tmp_distance, foldvars, indices, histvars>>

\* ------------------------------------------------------ worker pull-loop
\* variant: a lock_guard is constructed whether or not the mutex is held
mutex_free_always(m) == TRUE

\* the constructor of std::lock_guard returns once the mutex m is free
mutex_free(m) == m = 0

\* variant: the mutex stays locked when worker w leaves the guarded block
lock_guard_exit_locked(w) == w

\* the owner of a mutex once the lock_guard of worker w goes out of scope
lock_guard_exit(w) == 0

AcquireQueue(w) ==
    /\ wpc[w] = "pop"
    /\ mutex_free(queue_lock)
    /\ queue_lock' = w
    /\ wpc' = [wpc EXCEPT ![w] = "locked_queue"]
    /\ UNCHANGED <<cfgvars, unfilled, m_threads, inView, viewSet, run_pc,
                   point_indices, inliers, outliers, distances, result_lock,
                   idx, ids, tmp_distance, foldvars, indices, histvars>>

ReturnEmpty(w) ==
    /\ wpc[w] = "locked_queue"
    /\ empty(point_indices)
    /\ queue_lock' = lock_guard_exit(w)
    /\ wpc' = [wpc EXCEPT ![w] = "done"]
    /\ UNCHANGED <<cfgvars, unfilled, m_threads, inView, viewSet, run_pc,
                   point_indices, inliers, outliers, distances, result_lock,
                   idx, ids, tmp_distance, foldvars, indices, histvars>>

PopFront(w) ==
    /\ wpc[w] = "locked_queue"
    /\ ~empty(point_indices)
    /\ idx' = [idx EXCEPT ![w] = front(point_indices)]
    /\ point_indices' = pop_front(point_indices)
    /\ pop_count' = [pop_count EXCEPT ![front(point_indices)] = @ + 1]
    /\ queue_lock' = lock_guard_exit(w)
    /\ wpc' = [wpc EXCEPT ![w] = "work"]
    /\ UNCHANGED <<cfgvars, unfilled, m_threads, inView, viewSet, run_pc,
                   inliers, outliers, distances, result_lock, ids,
                   tmp_distance, foldvars, indices, merge_count,
                   classification_before, threads_before>>

RadiusQuery(w) ==
    /\ wpc[w] = "work"
    /\ IsRadius
    /\ ids' = [ids EXCEPT ![w] = radius(idx[w], m_radius)]
    /\ wpc' = [wpc EXCEPT ![w] = "merge"]
    /\ UNCHANGED <<cfgvars, unfilled, m_threads, inView, viewSet, run_pc,
                   point_indices, inliers, outliers, distances, lockvars, idx,
                   tmp_distance, foldvars, indices, histvars>>

KnnQuery(w) ==
    /\ wpc[w] = "work"
    /\ IsStatistical
    /\ LET count == m_meanK + 1
           sqr_dists == knnSearch(idx[w], count)
       IN  tmp_distance' = [tmp_distance EXCEPT ![w] =
               LocalMeanLoop(sqr_dists, 1, count, distances[idx[w]])]
    /\ wpc' = [wpc EXCEPT ![w] = "merge"]
    /\ UNCHANGED <<cfgvars, unfilled, m_threads, inView, viewSet, run_pc,
                   point_indices, inliers, outliers, distances, lockvars, idx,
                   ids, foldvars, indices, histvars>>

AcquireResult(w) ==
    /\ wpc[w] = "merge"
    /\ mutex_free(result_lock)
    /\ result_lock' = w
    /\ wpc' = [wpc EXCEPT ![w] = "locked_result"]
    /\ UNCHANGED <<cfgvars, unfilled, m_threads, inView, viewSet, run_pc,
                   point_indices, inliers, outliers, distances, queue_lock,
                   idx, ids, tmp_distance, foldvars, indices, histvars>>

MergeRadius(w) ==
    /\ wpc[w] = "locked_result"
    /\ IsRadius
    /\ IF IsInlierRadius(Cardinality(ids[w]), m_minK)
       THEN /\ inliers' = push_back(inliers, idx[w])
            /\ UNCHANGED outliers
       ELSE /\ outliers' = push_back(outliers, idx[w])
            /\ UNCHANGED inliers
    /\ merge_count' = [merge_count EXCEPT ![idx[w]] = @ + 1]
    /\ result_lock' = lock_guard_exit(w)
    /\ wpc' = [wpc EXCEPT ![w] = "pop"]
    /\ idx' = [idx EXCEPT ![w] = NoIdx]
    /\ ids' = [ids EXCEPT ![w] = {}]
    /\ UNCHANGED <<cfgvars, unfilled, m_threads, inView, viewSet, run_pc,
                   point_indices, distances, queue_lock, tmp_distance,
                   foldvars, indices, pop_count, classification_before,
                   threads_before>>

\* variant: every worker writes the first slot
slot_first(w) == 0

\* the slot of distances worker w writes: distances[idx] of line 200
slot(w) == idx[w]

MergeStatistical(w) ==
    /\ wpc[w] = "locked_result"
    /\ IsStatistical
    /\ distances' = [distances EXCEPT ![slot(w)] = tmp_distance[w]]
    /\ merge_count' = [merge_count EXCEPT ![slot(w)] = @ + 1]
    /\ result_lock' = lock_guard_exit(w)
    /\ wpc' = [wpc EXCEPT ![w] = "pop"]
    /\ idx' = [idx EXCEPT ![w] = NoIdx]
    /\ tmp_distance' = [tmp_distance EXCEPT ![w] = Dbl(0)]
    /\ UNCHANGED <<cfgvars, unfilled, m_threads, inView, viewSet, run_pc,
                   point_indices, inliers, outliers, queue_lock, ids,
                   foldvars, indices, pop_count, classification_before,
                   threads_before>>

\* ----------------------------------------------------- join and after it
\* thread_pool->join() returns once every task has returned
joined == \A w \in Workers : wpc[w] = "done"

JoinRadius ==
    /\ run_pc = "join"
    /\ IsRadius
    /\ joined
    /\ indices' = [inliers |-> inliers, outliers |-> outliers]
    /\ run_pc' = "apply"
    /\ UNCHANGED <<cfgvars, unfilled, m_threads, inView, viewSet,
                   point_indices, inliers, outliers, distances, lockvars,
                   workervars, foldvars, histvars>>

JoinStatistical ==
    /\ run_pc = "join"
    /\ IsStatistical
    /\ joined
    /\ n' = 0
    /\ M1' = Dbl(0)
    /\ M2' = Dbl(0)
    /\ run_pc' = "fold"
    /\ UNCHANGED <<cfgvars, unfilled, m_threads, inView, viewSet,
                   point_indices, inliers, outliers, distances, lockvars,
                   workervars, threshold, indices, histvars>>

\* one iteration of the loop of lines 211-219
FoldStep ==
    /\ run_pc = "fold"
    /\ n < np
    /\ LET acc == FoldUpdate([n |-> n, M1 |-> M1, M2 |-> M2], distances[n])
       IN  /\ n' = acc.n
           /\ M1' = acc.M1
           /\ M2' = acc.M2
    /\ UNCHANGED <<cfgvars, unfilled, m_threads, inView, viewSet, run_pc,
                   point_indices, inliers, outliers, distances, lockvars,
                   workervars, threshold, indices, histvars>>

\* lines 220-224
Threshold ==
    /\ run_pc = "fold"
    /\ n = np
    /\ threshold' = GlobalThreshold([n |-> n, M1 |-> M1, M2 |-> M2],
                                    m_multiplier)
    /\ run_pc' = "classify"
    /\ UNCHANGED <<cfgvars, unfilled, m_threads, inView, viewSet,
                   point_indices, inliers, outliers, distances, lockvars,
                   workervars, n, M1, M2, indices, histvars>>

\* lines 226-234
Classify ==
    /\ run_pc = "classify"
    /\ LET r == ClassifyLoop(0, threshold,
                             [inliers |-> inliers, outliers |-> outliers])
       IN  /\ inliers' = r.inliers
           /\ outliers' = r.outliers
           /\ indices' = r
    /\ run_pc' = "apply"
    /\ UNCHANGED <<cfgvars, unfilled, m_threads, inView, viewSet,
                   point_indices, distances, lockvars, workervars, foldvars,
                   histvars>>

\* variant: the test looks at the wrong list
removes_all_outliers(ix) == empty(ix.outliers)

\* line 261: the filter would remove all points
removes_all(ix) == empty(ix.inliers)

\* lines 261-291
ApplyNoInliers ==
    /\ run_pc = "apply"
    /\ removes_all(indices)
    /\ viewSet' = {"inView"}
    /\ run_pc' = "returned"
    /\ UNCHANGED <<cfgvars, unfilled, m_threads, inView, point_indices,
                   inliers, outliers, distances, lockvars, workervars,
                   foldvars, indices, histvars>>

ApplyOutliers ==
    /\ run_pc = "apply"
    /\ ~removes_all(indices)
    /\ ~empty(indices.outliers)
    /\ inView' = [inView EXCEPT !.classification =
                     SetFieldLoop(@, indices.outliers, 1, m_class)]
    /\ viewSet' = {"inView"}
    /\ run_pc' = "returned"
    /\ UNCHANGED <<cfgvars, unfilled, m_threads, point_indices, inliers,
                   outliers, distances, lockvars, workervars, foldvars,
                   indices, histvars>>

ApplyNoOutliers ==
    /\ run_pc = "apply"
    /\ ~removes_all(indices)
    /\ empty(indices.outliers)
    /\ viewSet' = {"inView"}
    /\ run_pc' = "returned"
    /\ UNCHANGED <<cfgvars, unfilled, m_threads, inView, point_indices,
                   inliers, outliers, distances, lockvars, workervars,
                   foldvars, indices, histvars>>

Next ==
    \/ Ready
    \/ RunEmpty
    \/ RunStatistical
    \/ RunRadius
    \/ RunUnrecognized
    \/ Go
    \/ \E w \in Workers : AcquireQueue(w)
    \/ \E w \in Workers : ReturnEmpty(w)
    \/ \E w \in Workers : PopFront(w)
    \/ \E w \in Workers : RadiusQuery(w)
    \/ \E w \in Workers : KnnQuery(w)
    \/ \E w \in Workers : AcquireResult(w)
    \/ \E w \in Workers : MergeRadius(w)
    \/ \E w \in Workers : MergeStatistical(w)
    \/ JoinRadius
    \/ JoinStatistical
    \/ FoldStep
    \/ Threshold
    \/ Classify
    \/ ApplyNoInliers
    \/ ApplyOutliers
    \/ ApplyNoOutliers

Spec == Init /\ [][Next]_vars

\* the runs whose schedules are followed to completion: the order of the
\* steps depends on the method, the threads and the number of points, so
\* the points are evenly spaced and arrive unclassified
InitFair ==
    /\ Init
    /\ m_minK \in {0, DefaultMinK}
    /\ m_meanK \in {1, DefaultMeanK}
    /\ m_multiplier \in {Dbl(1), Dbl(DefaultMultiplier)}
    /\ \A p \in PointIds : inView.x[p] = p /\ inView.classification[p] = 1

\* the threads are scheduled: a step that can be taken is taken eventually
SpecFair == InitFair /\ [][Next]_vars /\ WF_vars(Next)

\* ------------------------------------------------------------------
\* The global phase of processStatistical on its own: the state after the
\* join, for every array of local means over FoldValues.
\* ------------------------------------------------------------------
FoldValues == {Frac(v, 2) : v \in 0..(2 * MaxCoord)}

InitFold ==
    /\ m_method = StrStatistical
    /\ m_minK = DefaultMinK
    /\ m_radius = Dbl(DefaultRadius)
    /\ m_meanK = DefaultMeanK
    /\ m_multiplier \in MultiplierValues
    /\ m_class = LowPoint
    /\ m_threads = 1
    /\ \E k \in 1..MaxPoints :
        /\ inView = [x |-> [p \in 0..(k - 1) |-> 0],
                     classification |-> [p \in 0..(k - 1) |-> 1]]
        /\ distances \in [0..(k - 1) -> FoldValues]
        /\ pop_count = [p \in 0..(k - 1) |-> 1]
        /\ merge_count = [p \in 0..(k - 1) |-> 1]
    /\ classification_before = inView.classification
    /\ threads_before = m_threads
    /\ viewSet = {}
    /\ run_pc = "fold"
    /\ unfilled = 0
    /\ point_indices = << >>
    /\ inliers = << >>
    /\ outliers = << >>
    /\ queue_lock = 0
    /\ result_lock = 0
    /\ wpc = <<"done">>
    /\ idx = <<NoIdx>>
    /\ ids = <<{}>>
    /\ tmp_distance = <<Dbl(0)>>
    /\ n = 0
    /\ M1 = Dbl(0)
    /\ M2 = Dbl(0)
    /\ threshold = NoThreshold
    /\ indices = [inliers |-> << >>, outliers |-> << >>]

NextFold ==
    \/ FoldStep
    \/ Threshold
    \/ Classify

SpecFold == InitFold /\ [][NextFold]_vars

\* ------------------------------------------------------------------
\* The per-point phase of processStatistical on its own, for every
\* mean_k of 1..MaxMeanK.
\* ------------------------------------------------------------------
MaxMeanK == 3
MaxLocalCoord == 3

\* the views of the per-point phase: up to MaxMeanK + 1 points, so that
\* for every mean_k there are views with mean_k neighbours for each
\* point, on a line at coordinates 0..MaxLocalCoord
LocalViews ==
    {[x |-> x, classification |-> [p \in DOMAIN x |-> 1]] :
        x \in UNION {{y \in [0..(k - 1) -> 0..MaxLocalCoord] :
                         /\ y[0] = 0
                         /\ \A p \in 0..(k - 2) : y[p] <= y[p + 1]} :
                     k \in 1..(MaxMeanK + 1)}}

InitLocal ==
    /\ m_method = StrStatistical
    /\ m_minK = DefaultMinK
    /\ m_radius = Dbl(DefaultRadius)
    /\ m_meanK \in 1..MaxMeanK
    /\ m_multiplier = Dbl(DefaultMultiplier)
    /\ m_class = LowPoint
    /\ m_threads \in 1..MaxThreads
    /\ inView \in LocalViews
    /\ classification_before = inView.classification
    /\ threads_before = m_threads
    /\ viewSet = {}
    /\ run_pc = "ready"
    /\ point_indices = << >>
    /\ inliers = << >>
    /\ outliers = << >>
    /\ distances = << >>
    /\ unfilled = 0
    /\ queue_lock = 0
    /\ result_lock = 0
    /\ wpc = << >>
    /\ idx = << >>
    /\ ids = << >>
    /\ tmp_distance = << >>
    /\ n = 0
    /\ M1 = Dbl(0)
    /\ M2 = Dbl(0)
    /\ threshold = NoThreshold
    /\ indices = [inliers |-> << >>, outliers |-> << >>]
    /\ pop_count = << >>
    /\ merge_count = << >>

NextLocal ==
    \/ RunStatistical
    \/ Go
    \/ \E w \in Workers : AcquireQueue(w)
    \/ \E w \in Workers : ReturnEmpty(w)
    \/ \E w \in Workers : PopFront(w)
    \/ \E w \in Workers : KnnQuery(w)
    \/ \E w \in Workers : AcquireResult(w)
    \/ \E w \in Workers : MergeStatistical(w)
    \/ JoinStatistical

SpecLocal == InitLocal /\ [][NextLocal]_vars

\* ===================================================================
\* Properties
\* ===================================================================
SeqToSet(sq) == {sq[k] : k \in 1..Len(sq)}
Count(sq, p) == Cardinality({k \in 1..Len(sq) : sq[k] = p})
Lowercase(str) == [i \in 1..Len(str) |-> ToLower(str[i])]
Recognized == Lowercase(m_method) \in {StrStatistical, StrRadius}

\* a classifier has returned its Indices to run
ProcessReturned ==
    \/ run_pc = "apply"
    \/ run_pc = "returned" /\ np # 0 /\ Recognized

\* C1: in both classifiers, under every interleaving of the workers, each
\* index is popped by at most one worker, held by at most one worker and
\* merged at most once; once all workers have returned each index of
\* 0..np-1 has been popped exactly once and merged exactly once.
C1_EachIndexExactlyOnce ==
    /\ \A p \in DOMAIN pop_count :
        /\ pop_count[p] <= 1
        /\ merge_count[p] <= pop_count[p]
        /\ pop_count[p] - merge_count[p] =
              Cardinality({w \in Workers : idx[w] = p})
    /\ \A w1, w2 \in Workers :
        (w1 # w2 /\ idx[w1] # NoIdx) => idx[w1] # idx[w2]
    /\ (Workers # {} /\ \A w \in Workers : wpc[w] = "done") =>
        \A p \in PointIds : pop_count[p] = 1 /\ merge_count[p] = 1

C1_Witness ==
    /\ np >= 3
    /\ m_threads >= 2
    /\ Workers # {}
    /\ \A w \in Workers : wpc[w] = "done"
    /\ \E k \in 1..(Len(inliers) - 1) : inliers[k] > inliers[k + 1]

\* C2: the Indices a classifier returns is a partition of 0..np-1: inliers
\* and outliers together hold every index exactly once and nothing else.
C2_Partition ==
    ProcessReturned =>
        LET all == indices.inliers \o indices.outliers
        IN  /\ Len(all) = np
            /\ \A k \in 1..Len(all) : all[k] \in PointIds
            /\ \A p \in PointIds : Count(all, p) = 1

C2_Witness ==
    /\ run_pc = "apply"
    /\ np >= 3
    /\ Len(indices.inliers) > 0
    /\ Len(indices.outliers) > 0

\* the partition of a run with one worker, as a function of the view and
\* the options alone
SequentialDistances ==
    [p \in PointIds |->
        LocalMeanLoop(knnSearch(p, m_meanK + 1), 1, m_meanK + 1, Dbl(0))]

RECURSIVE SequentialFold(_, _)
SequentialFold(d, k) ==
    IF k = 0 THEN [n |-> 0, M1 |-> Dbl(0), M2 |-> Dbl(0)]
    ELSE Bind(SequentialFold(d, k - 1), LAMBDA acc :
            FoldUpdate(acc, d[k - 1]))

SequentialInliers ==
    IF Lowercase(m_method) = StrStatistical
    THEN Bind(SequentialDistances, LAMBDA d :
            Bind(GlobalThreshold(SequentialFold(d, np), m_multiplier),
                 LAMBDA th :
                     {p \in PointIds : IsInlierStatistical(d[p], th)}))
    ELSE {p \in PointIds :
            IsInlierRadius(Cardinality(radius(p, m_radius)), m_minK)}

\* C3: for a fixed view and configuration the set of inliers and the set
\* of outliers a classifier returns do not depend on the thread count or on
\* the scheduling of the workers: they are the sets of the sequential run.
C3_SamePartitionForAnySchedule ==
    ProcessReturned =>
        /\ SeqToSet(indices.inliers) = SequentialInliers
        /\ SeqToSet(indices.outliers) = PointIds \ SequentialInliers

C3_Witness ==
    /\ run_pc = "apply"
    /\ m_threads >= 2
    /\ \E k \in 1..(Len(indices.outliers) - 1) :
        indices.outliers[k] > indices.outliers[k + 1]

\* C4: in processStatistical the global fold runs only after the join:
\* while the fold or the classification is in progress every worker has
\* returned, the queue is empty and every local mean has been written
\* once; and a worker runs only when every index is in the queue or popped.
C4_FoldAfterJoin ==
    /\ (run_pc \in {"fold", "classify"} \/ n > 0) =>
        /\ \A w \in Workers : wpc[w] = "done"
        /\ Len(point_indices) = 0
        /\ \A p \in PointIds : merge_count[p] = 1
    /\ (\E w \in Workers : wpc[w] # "queued") =>
        \A p \in PointIds :
            Count(point_indices, p) + pop_count[p] = 1

C4_Witness ==
    /\ run_pc = "fold"
    /\ n = 1
    /\ np >= 2
    /\ m_threads >= 2
    /\ \E p \in PointIds : DLess(Dbl(0), distances[p])

\* C5: processRadius with min_k >= 0 puts p in inliers exactly when the
\* radius query for p returns more than min_k ids; a point with exactly
\* min_k ids is an outlier.
C5_RadiusRule ==
    (ProcessReturned /\ Lowercase(m_method) = StrRadius /\ m_minK >= 0) =>
        \A p \in PointIds :
            LET c == Cardinality(radius(p, m_radius))
            IN  /\ (p \in SeqToSet(indices.inliers)) <=> (c > m_minK)
                /\ (p \in SeqToSet(indices.outliers)) <=> (c <= m_minK)

C5_Witness ==
    /\ run_pc = "apply"
    /\ Lowercase(m_method) = StrRadius
    /\ m_minK >= 0
    /\ \E p \in SeqToSet(indices.outliers) :
        Cardinality(radius(p, m_radius)) = m_minK
    /\ \E p \in SeqToSet(indices.inliers) :
        Cardinality(radius(p, m_radius)) = m_minK + 1

\* the relative tolerance 2^-30, below 1e-9
Tolerance == Fin(1, <<1>>, -30)

DMax(a, b) == IF DLess(a, b) THEN b ELSE a

\* a and b are finite and |a - b| <= Tolerance * max(|a|, |b|)
Close(x, y) ==
    Bind2(x, y, LAMBDA a, b :
        /\ IsFinite(a)
        /\ IsFinite(b)
        /\ \/ a = b
           \/ ~DLess(DMul(Tolerance, DMax(DAbs(a), DAbs(b))),
                     DAbs(DSub(a, b))))

\* naive two-pass mean and sample variance of the local means, each step
\* in double arithmetic
RECURSIVE SumTo(_, _)
SumTo(f, k) ==
    IF k = 0 THEN Dbl(0)
    ELSE Bind(SumTo(f, k - 1), LAMBDA sum : DAdd(sum, f[k - 1]))

\* mean and sum of squared deviations of the first k local means
PrefixMean(k) == DDiv(SumTo(distances, k), Dbl(k))

PrefixM2(k) ==
    Bind(PrefixMean(k), LAMBDA mean :
        SumTo([p \in 0..(k - 1) |->
                  Bind(DSub(distances[p], mean), LAMBDA dev :
                      DMul(dev, dev))],
              k))

TwoPassMean == PrefixMean(np)

TwoPassVariance == DDiv(PrefixM2(np), Dbl(np - 1))

\* C6: processStatistical puts p in inliers exactly when its local mean is
\* below threshold = mean + multiplier * stddev, mean and stddev being
\* those of all np local means; a local mean equal to the threshold makes
\* p an outlier.
C6_StatisticalRule ==
    (ProcessReturned /\ Lowercase(m_method) = StrStatistical) =>
        /\ n = np
        /\ threshold.mean = M1
        /\ np >= 2 =>
            /\ Close(threshold.mean, TwoPassMean)
            /\ Close(threshold.variance, TwoPassVariance)
        /\ IF IsFinite(threshold.variance)
           THEN Close(DMul(threshold.stdev, threshold.stdev),
                      threshold.variance)
           ELSE ~IsFinite(threshold.stdev)
        /\ threshold.threshold =
              DAdd(threshold.mean, DMul(m_multiplier, threshold.stdev))
        /\ \A p \in PointIds :
            /\ (p \in SeqToSet(indices.inliers)) <=>
                  DLess(distances[p], threshold.threshold)
            /\ (p \in SeqToSet(indices.outliers)) <=>
                  ~DLess(distances[p], threshold.threshold)
            /\ DEqual(distances[p], threshold.threshold)
                  => p \in SeqToSet(indices.outliers)

C6_Witness ==
    /\ run_pc = "apply"
    /\ Lowercase(m_method) = StrStatistical
    /\ np >= 2
    /\ \E p \in SeqToSet(indices.outliers) :
        /\ DLess(Dbl(0), distances[p])
        /\ DEqual(distances[p], threshold.threshold)

\* C7: when the partition has an inlier and an outlier, after run every
\* outlier carries the noise class and every inlier the class it had
\* before run.
C7_OutliersLabelled ==
    (run_pc = "returned" /\ Len(indices.inliers) > 0
                         /\ Len(indices.outliers) > 0) =>
        /\ \A p \in SeqToSet(indices.outliers) :
            inView.classification[p] = m_class
        /\ \A p \in SeqToSet(indices.inliers) :
            inView.classification[p] = classification_before[p]
        /\ viewSet = {"inView"}

C7_Witness ==
    /\ run_pc = "returned"
    /\ Len(indices.outliers) >= 2
    /\ \E p \in SeqToSet(indices.outliers) :
        classification_before[p] # m_class
    /\ \E p \in SeqToSet(indices.inliers) :
        classification_before[p] # m_class

\* C8: when the partition has no inlier, or no outlier, run returns the
\* input view with the classification of every point unchanged.
C8_DegeneratePassThrough ==
    (run_pc = "returned" /\ ProcessReturned
        /\ (Len(indices.inliers) = 0 \/ Len(indices.outliers) = 0)) =>
        /\ inView.classification = classification_before
        /\ viewSet = {"inView"}

C8_Witness ==
    /\ run_pc = "returned"
    /\ Len(indices.inliers) = 0
    /\ Len(indices.outliers) >= 2
    /\ \E p \in PointIds : classification_before[p] # m_class

\* C9: with a method name that is neither "statistical" nor "radius" in
\* any letter case, run on a non-empty view sets up no queue, launches no
\* worker, changes no classification and returns the input view.
C9_UnrecognizedPassThrough ==
    (~Recognized /\ np # 0) =>
        /\ run_pc \in {"configured", "ready", "returned"}
        /\ Workers = {}
        /\ point_indices = << >>
        /\ indices = [inliers |-> << >>, outliers |-> << >>]
        /\ inView.classification = classification_before
        /\ run_pc = "returned" => viewSet = {"inView"}

C9_Witness ==
    /\ run_pc = "returned"
    /\ ~Recognized
    /\ np >= 2
    /\ viewSet = {"inView"}

\* C10: the statistical method guards against np <= 1: the variance step
\* M2 / (n - 1) is never evaluated with n <= 1.
C10_VarianceGuarded ==
    run_pc = "classify" => n > 1

\* the two-pass mean and sample variance of local means that are
\* multiples of 1/2, computed on integers and rounded once: with
\* S the sum of the doubled values and Q the sum of their squares, the
\* mean is S / 2n and the sample variance (n Q - S^2) / 4 n (n - 1)
Twice(d) == IF IsZero(d) THEN 0 ELSE d.s * d.m[1] * Pow2(d.e + 1)

RECURSIVE SumTwice(_, _)
SumTwice(f, k) ==
    IF k = 0 THEN 0 ELSE SumTwice(f, k - 1) + Twice(f[k - 1])

RECURSIVE SumTwiceSquared(_, _)
SumTwiceSquared(f, k) ==
    IF k = 0 THEN 0
    ELSE SumTwiceSquared(f, k - 1) + Twice(f[k - 1]) * Twice(f[k - 1])

ExactMean == Frac(SumTwice(distances, np), 2 * np)

ExactVariance ==
    Frac(np * SumTwiceSquared(distances, np)
            - SumTwice(distances, np) * SumTwice(distances, np),
         4 * np * (np - 1))

RECURSIVE SumDistances(_, _)
SumDistances(sqr_dists, k) ==
    IF k = 0 THEN Dbl(0)
    ELSE DAdd(SumDistances(sqr_dists, k - 1), DSqrt(Dbl(sqr_dists[k + 1])))

ArithmeticLocalMean(p) ==
    Bind(knnSearch(p, m_meanK + 1), LAMBDA sqr_dists :
        DDiv(SumDistances(sqr_dists, m_meanK), Dbl(m_meanK)))

\* the incremental rule mean += (d_j - mean) / j over positions 1..k,
\* starting from 0
RECURSIVE IncrementalMean(_, _)
IncrementalMean(sqr_dists, k) ==
    IF k = 0 THEN Dbl(0)
    ELSE Bind(IncrementalMean(sqr_dists, k - 1), LAMBDA mean :
            DAdd(mean, DDiv(DSub(DSqrt(Dbl(sqr_dists[k + 1])), mean),
                            Dbl(k))))

\* C12: for every mean_k of 1..MaxMeanK and every point p, the value the
\* per-point phase stores at slot p is the value of the incremental rule
\* mean += (d_j - mean) / j, starting from 0, over positions 1..mean_k of
\* the k-nearest-neighbour result of p (position 0, p itself, excluded),
\* and that value is the arithmetic mean of those mean_k distances up to
\* double rounding, within the relative tolerance; a slot not yet written
\* holds the 0 the incremental rule starts from.
C12_LocalMeanIsArithmeticMean ==
    \A p \in DOMAIN distances :
        IF merge_count[p] >= 1
        THEN Bind(knnSearch(p, m_meanK + 1), LAMBDA sqr_dists :
                 /\ distances[p] = IncrementalMean(sqr_dists, m_meanK)
                 /\ Close(distances[p],
                          DDiv(SumDistances(sqr_dists, m_meanK),
                               Dbl(m_meanK))))
        ELSE distances[p] = Dbl(0)

\* a point with three neighbours in the view has stored their mean, and
\* the incremental rule rounded it: it is not the double their sum
\* divided by 3 gives
C12_Witness ==
    /\ m_meanK = 3
    /\ np > m_meanK
    /\ \E p \in DOMAIN distances :
        /\ merge_count[p] = 1
        /\ ~DEqual(distances[p], ArithmeticLocalMean(p))

\* C13: applying the labelling loop of run a second time, with the same
\* outliers and noise class, leaves every classification as the first
\* application left it.
C13_LabellingIdempotent ==
    (run_pc = "returned" /\ Len(indices.inliers) > 0
                         /\ Len(indices.outliers) > 0) =>
        /\ inView.classification =
              SetFieldLoop(classification_before, indices.outliers, 1,
                           m_class)
        /\ SetFieldLoop(inView.classification, indices.outliers, 1, m_class)
              = inView.classification

C13_Witness ==
    /\ run_pc = "returned"
    /\ Len(indices.inliers) > 0
    /\ Len(indices.outliers) > 0
    /\ inView.classification # classification_before
    /\ \A p \in SeqToSet(indices.outliers) :
        inView.classification[p] = m_class

\* the threshold mean + multiplier * sqrt(variance) has the value 0
ThresholdIsZero ==
    /\ threshold.mean = Dbl(0)
    /\ DEqual(threshold.threshold, Dbl(0))

\* C14: with the statistical method, multiplier 0 and a non-empty view
\* whose local means are all 0, the threshold is the global mean 0, every
\* point is an outlier, no point is an inlier and run returns the input
\* with no class changed.
C14_CoincidentPointsPassThrough ==
    (run_pc \in {"classify", "apply", "returned"}
        /\ np >= 1
        /\ Lowercase(m_method) = StrStatistical
        /\ m_multiplier = Dbl(0)
        /\ \A p \in PointIds : distances[p] = Dbl(0)) =>
        /\ ThresholdIsZero
        /\ run_pc \in {"apply", "returned"} =>
            /\ indices.inliers = << >>
            /\ SeqToSet(indices.outliers) = PointIds
        /\ run_pc = "returned" =>
            /\ inView.classification = classification_before
            /\ viewSet = {"inView"}

\* C15: under fair scheduling every run completes: once the workers are
\* started they all return, the join returns and run returns; no worker
\* waits for a lock for ever.
C15_RunCompletes ==
    /\ <>(run_pc = "returned")
    /\ (run_pc = "join") ~> (\A w \in Workers : wpc[w] = "done")
    /\ [](run_pc = "returned" \/ ENABLED Next)

C15_Witness ==
    /\ run_pc = "returned"
    /\ m_threads >= 2
    /\ np >= 3
    /\ \A w \in Workers : wpc[w] = "done"
    /\ \E k \in 1..(Len(inliers) - 1) : inliers[k] > inliers[k + 1]

\* C16: in the pull-loop a worker is inside the block guarded by a mutex
\* only while it owns that mutex, so at most one worker is inside each
\* block; no worker owns both mutexes; a worker at the neighbour query owns
\* neither.
C16_LocksExclusive ==
    /\ queue_lock \in {0} \cup Workers
    /\ result_lock \in {0} \cup Workers
    /\ \A w \in Workers :
        /\ wpc[w] = "locked_queue" <=> queue_lock = w
        /\ wpc[w] = "locked_result" <=> result_lock = w
        /\ ~(queue_lock = w /\ result_lock = w)
        /\ wpc[w] = "work" => queue_lock # w /\ result_lock # w
    /\ Cardinality({w \in Workers : wpc[w] = "locked_queue"}) <= 1
    /\ Cardinality({w \in Workers : wpc[w] = "locked_result"}) <= 1

\* one worker is at its query while another one merges under the result lock
C16_Witness ==
    \E w1, w2 \in Workers :
        /\ w1 # w2
        /\ wpc[w1] = "work"
        /\ wpc[w2] = "locked_result"
        /\ result_lock = w2
        /\ queue_lock = 0

\* C17: in processStatistical the workers that have an index in hand have
\* different ones, a slot is in the hands of a worker exactly between its
\* pop and its write, a slot is written once and only after its index was
\* popped, it holds the initial 0.0 until then, and the step that writes
\* slot p is taken by the worker that has p in hand, under the result lock.
C17_SlotsDisjoint ==
    /\ [](run_pc = "join" =>
            /\ \A w1, w2 \in Workers :
                 w1 # w2 /\ idx[w1] # NoIdx => idx[w1] # idx[w2]
            /\ \A p \in PointIds :
                 /\ merge_count[p] <= pop_count[p]
                 /\ pop_count[p] <= 1
                 /\ (pop_count[p] = 1 /\ merge_count[p] = 0)
                        <=> (\E w \in Workers : idx[w] = p)
                 /\ merge_count[p] = 0 => distances[p] = Dbl(0))
    /\ [](run_pc = "fold" => \A p \in PointIds : merge_count[p] = 1)
    /\ [][run_pc = "join" =>
            \A p \in PointIds :
                (distances'[p] # distances[p]
                          \/ merge_count'[p] # merge_count[p])
                    => \E w \in Workers :
                         /\ idx[w] = p
                         /\ wpc[w] = "locked_result"
                         /\ result_lock = w
                         /\ pop_count[p] = 1
                         /\ merge_count[p] = 0
                         /\ merge_count'[p] = 1]_vars

\* a worker reads its slot without a lock while another worker is about to
\* write a different one and a third slot has been written
C17_Witness ==
    /\ IsStatistical
    /\ \E w1, w2 \in Workers :
        /\ wpc[w1] = "work"
        /\ wpc[w2] = "locked_result"
        /\ idx[w1] # idx[w2]
        /\ \E q \in PointIds :
            /\ merge_count[q] = 1
            /\ distances[q] # Dbl(0)

\* C18 as stated: a step of the fold on the value x moves n to n + 1, M1 to
\* M1 + delta / n with delta = x - M1, and adds to M2 the product
\* delta * (x - M1) * (n - 1) taken with the updated M1 and n.
C18_IncrementTimesCount ==
    [][(run_pc = "fold" /\ n' # n) =>
          LET x == distances[n]
              delta == DSub(x, M1)
          IN  /\ n' = n + 1
              /\ M1' = DAdd(M1, DDiv(delta, Dbl(n')))
              /\ M2' = DAdd(M2, DMul(DMul(delta, DSub(x, M1')),
                                     Dbl(n' - 1)))]_vars

\* C18: a step of the fold on the value x moves n to n + 1, M1 to
\* M1 + delta / n with delta = x - M1, and adds to M2 the product
\* delta * (delta / n) * (n - 1) with the updated n, which is
\* delta * (x - M1) with the updated M1 within the relative tolerance.
C18_IncrementWelford ==
    [][(run_pc = "fold" /\ n' # n) =>
          LET x == distances[n]
              delta == DSub(x, M1)
              increment == DMul(DMul(delta, DDiv(delta, Dbl(n'))),
                                Dbl(n' - 1))
          IN  /\ n' = n + 1
              /\ M1' = DAdd(M1, DDiv(delta, Dbl(n')))
              /\ M2' = DAdd(M2, increment)
              /\ Close(increment, DMul(delta, DSub(x, M1')))]_vars

\* the fold has taken in a third value that is not the mean of the first two
C18_Witness ==
    /\ run_pc = "fold"
    /\ n >= 3
    /\ ~DEqual(distances[n - 1], PrefixMean(n - 1))
    /\ M2 # Dbl(0)

\* C19: processRadius puts p in inliers exactly when the radius query for p
\* returns more than min_k ids, for every int min_k; with a negative min_k
\* every point is an inlier.
C19_SignedRadiusRule ==
    (ProcessReturned /\ Lowercase(m_method) = StrRadius) =>
        \A p \in PointIds :
            LET c == Cardinality(radius(p, m_radius))
            IN  /\ (p \in SeqToSet(indices.inliers)) <=> (c > m_minK)
                /\ m_minK < 0 => p \in SeqToSet(indices.inliers)

\* C20: after ready the thread count is at least 1: a configured 0 has
\* become 1 and a configured value of 1 or more is kept; a classifier run
\* adds that many workers, at least one, and once the workers are joined
\* the queue is empty and every index has been popped.
C20_AtLeastOneWorker ==
    /\ run_pc # "configured" =>
        /\ m_threads >= 1
        /\ m_threads = (IF threads_before = 0 THEN 1 ELSE threads_before)
    /\ run_pc \in {"go", "join"} =>
        /\ Cardinality(Workers) = m_threads
        /\ Workers # {}
    /\ ProcessReturned \/ run_pc \in {"fold", "classify"} =>
        /\ point_indices = << >>
        /\ \A p \in PointIds : pop_count[p] = 1

\* a run configured with 0 threads has drained a queue of several indices
C20_Witness ==
    /\ threads_before = 0
    /\ m_threads = 1
    /\ run_pc = "apply"
    /\ np >= 2
    /\ point_indices = << >>
    /\ wpc = <<"done">>

====
